---- MODULE Spec2Model ----
(***************************************************************************)
(* A model of blog/generate.py, the static generator of a photo microblog: *)
(* the responsive image pipeline, URL resolution, pagination and the run   *)
(* of main over the output directory.                                      *)
(***************************************************************************)
EXTENDS Integers, Sequences, FiniteSets, TLC

(***************************************************************************)
(* Sequence helpers                                                        *)
(***************************************************************************)
RECURSIVE Reverse(_)
Reverse(s) == IF s = <<>> THEN <<>> ELSE Reverse(Tail(s)) \o <<Head(s)>>

Max2(a, b) == IF a >= b THEN a ELSE b

Range(s) == {s[i] : i \in 1..Len(s)}

(***************************************************************************)
(* IEEE-754 double arithmetic on positive values, as much of it as         *)
(* generate_variants uses: src_height * (target_width / src_width),        *)
(* followed by round().  A double is a pair <<m, s>>: a 53-bit mantissa m  *)
(* (a sequence of bits, most significant first, m[1] = 1) and a scale s,   *)
(* standing for m * 2^(-s).                                                *)
(***************************************************************************)
MantissaBits == 53

\* long arithmetic is done on limbs of LimbBits bits
LimbBits == 13

RECURSIVE Pow2(_)
Pow2(n) == IF n = 0 THEN 1 ELSE 2 * Pow2(n - 1)

LimbBase == Pow2(LimbBits)

RECURSIVE IntToBits(_)
IntToBits(n) == IF n = 0 THEN <<>> ELSE IntToBits(n \div 2) \o <<n % 2>>

RECURSIVE BitsToInt(_)
BitsToInt(b) ==
    IF b = <<>> THEN 0 ELSE 2 * BitsToInt(SubSeq(b, 1, Len(b) - 1)) + b[Len(b)]

AnyOne(b) == \E i \in 1..Len(b) : b[i] = 1

\* the index of the first one bit of b
FirstOne(b) == CHOOSE i \in 1..Len(b) : b[i] = 1 /\ \A j \in 1..(i - 1) : b[j] = 0

\* b + 1 on a bit sequence (most significant first); one bit longer on carry out
IncBits(b) ==
    IF \A i \in 1..Len(b) : b[i] = 1 THEN <<1>> \o [i \in 1..Len(b) |-> 0]
    ELSE LET j == CHOOSE k \in 1..Len(b) : b[k] = 0 /\ \A l \in (k + 1)..Len(b) : b[l] = 1
         IN  [i \in 1..Len(b) |-> IF i < j THEN b[i] ELSE IF i = j THEN 1 ELSE 0]

\* the bits of a sequence of limbs, most significant first
LimbsToBits(limbs) ==
    [i \in 1..(Len(limbs) * LimbBits) |->
        (limbs[((i - 1) \div LimbBits) + 1]
           \div Pow2(LimbBits - 1 - ((i - 1) % LimbBits))) % 2]

\* the limbs of a bit sequence whose length is a multiple of LimbBits
BitsToLimbs(b) ==
    [k \in 1..(Len(b) \div LimbBits) |->
        BitsToInt(SubSeq(b, LimbBits * (k - 1) + 1, LimbBits * k))]

\* the first n limbs after the binary point of r / d, for 0 <= r < d
RECURSIVE FracLimbs(_, _, _)
FracLimbs(r, d, n) ==
    IF n = 0 THEN <<>>
    ELSE <<(r * LimbBase) \div d>> \o FracLimbs((r * LimbBase) % d, d, n - 1)

\* what is left of r after those n limbs
RECURSIVE FracRem(_, _, _)
FracRem(r, d, n) == IF n = 0 THEN r ELSE FracRem((r * LimbBase) % d, d, n - 1)

\* round-half-even of mantissa m given whether the dropped part is above / at half
RoundMantissa(m, s, above, tie) ==
    LET up == above \/ (tie /\ m[Len(m)] = 1)
        inc == IncBits(m)
    IN  IF ~up THEN <<m, s>>
        ELSE IF Len(inc) > Len(m) THEN <<SubSeq(inc, 1, Len(m)), s - 1>>
        ELSE <<inc, s>>

\* the double nearest to the number whose bits are `all` (the bit at index i
\* weighing 2^(point - i)), `more` telling that something non-zero follows them
NearestDouble(all, point, more) ==
    LET first == FirstOne(all)
        last  == first + MantissaBits - 1
        m     == SubSeq(all, first, last)
        guard == all[last + 1] = 1
        sticky == more \/ AnyOne(SubSeq(all, last + 2, Len(all)))
    IN  RoundMantissa(m, last - point, guard /\ sticky, guard /\ ~sticky)

\* the double nearest to n / d, for integers n >= 1 and 1 <= d < 2^18
FloatDiv(n, d) ==
    LET ip == IntToBits(n \div d)
        fl == 7
    IN  NearestDouble(ip \o LimbsToBits(FracLimbs(n % d, d, fl)), Len(ip),
                      FracRem(n % d, d, fl) # 0)

\* the limbs (least significant first) of h * limbs + carry, limbs given least
\* significant first
RECURSIVE MulLimbs(_, _, _)
MulLimbs(limbs, h, carry) ==
    IF limbs = <<>>
    THEN (IF carry = 0 THEN <<>>
          ELSE <<carry % LimbBase>> \o MulLimbs(<<>>, h, carry \div LimbBase))
    ELSE LET x == carry + h * Head(limbs)
         IN  <<x % LimbBase>> \o MulLimbs(Tail(limbs), h, x \div LimbBase)

\* the double nearest to h * f, for an integer 1 <= h < 2^17 and a double f
FloatMulInt(h, f) ==
    LET pad    == [i \in 1..(5 * LimbBits - MantissaBits) |-> 0]
        limbs  == BitsToLimbs(pad \o f[1])
        prod   == Reverse(MulLimbs(Reverse(limbs), h, 0))
        \* two zero bits follow the product: the guard bit is always there
        all    == LimbsToBits(prod) \o <<0, 0>>
    IN  NearestDouble(all, Len(all) - 2 - f[2], FALSE)

\* round-half-even of n / d to an integer
RoundHalfEven(n, d) ==
    LET q == n \div d
        r == n % d
    IN  IF 2 * r < d THEN q
        ELSE IF 2 * r > d THEN q + 1
        ELSE IF q % 2 = 0 THEN q ELSE q + 1

\* Python's round() of a double smaller than 2^31: half to even, on the exact value
PyRound(f) ==
    LET m == f[1]
        s == f[2]
        ip == IF s >= MantissaBits THEN 0 ELSE BitsToInt(SubSeq(m, 1, MantissaBits - s))
        fr == IF s >= MantissaBits THEN m ELSE SubSeq(m, MantissaBits - s + 1, MantissaBits)
    IN  IF s = 0 THEN BitsToInt(m)
        ELSE IF s > MantissaBits THEN 0
        ELSE IF fr[1] = 0 THEN ip
        ELSE IF AnyOne(Tail(fr)) THEN ip + 1
        ELSE IF ip % 2 = 0 THEN ip ELSE ip + 1

(***************************************************************************)
(* Files.  A path is a record: abs (an absolute path, outside the asset    *)
(* tree), dir (the directory, a sequence of segments below the root it is  *)
(* relative to), stem, tag (the width t of a "-{t}w" marker that           *)
(* generate_variants puts after the stem; 0 for none) and suffix.          *)
(***************************************************************************)
None == "None"

\* an optional value: None is the empty sequence, a value v is <<v>>
Nothing == <<>>
Some(v) == <<v>>

\* the None of a width or a height
Unknown == -1
NoDims == <<Unknown, Unknown>>

File(dir, stem, suffix) ==
    [abs |-> FALSE, dir |-> dir, stem |-> stem, tag |-> 0, suffix |-> suffix]

AbsFile(dir, stem, suffix) ==
    [abs |-> TRUE, dir |-> dir, stem |-> stem, tag |-> 0, suffix |-> suffix]

POSTS_PER_PAGE == 10
RESPONSIVE_WIDTHS == <<480, 720, 1080>>
TargetDisplayWidth == 1040

\* str.lower() on the suffixes the model uses
Lower(suffix) ==
    CASE suffix = ".JPG" -> ".jpg"
      [] suffix = ".PNG" -> ".png"
      [] OTHER -> suffix

AllowedSuffixes == {".jpg", ".jpeg", ".png", ".webp"}

\* Python truthiness of a dimension: None and 0 are false
Falsy(v) == v = Unknown \/ v = 0

\* max(1, round(src_height * (target_width / src_width)))
TargetHeight(src_width, src_height, target_width) ==
    Max2(1, PyRound(FloatMulInt(src_height, FloatDiv(target_width, src_width))))

\* dist_dir / f"{source_path.stem}-{target_width}w{source_path.suffix}"
TargetPath(dist_path, target_width) == [dist_path EXCEPT !.tag = target_width]

\* the loop guard written with > for >=: a width equal to the source's gets resized
SkipWidthAbove(target_width, src_width) == target_width > src_width

\* the guard of the loop of generate_variants: this width is not generated
SkipWidth(target_width, src_width) == target_width >= src_width

\* the guard in front of the resize: the destination is already there
SkipResize(target_path, files) == target_path \in files

\* the widths of the loop that get a variant, in order
RECURSIVE KeptWidths(_, _)
KeptWidths(widths, src_width) ==
    IF widths = <<>> THEN <<>>
    ELSE IF SkipWidth(Head(widths), src_width) THEN KeptWidths(Tail(widths), src_width)
    ELSE <<Head(widths)>> \o KeptWidths(Tail(widths), src_width)

\* generate_variants bails out: unknown dimensions or a suffix off the allow-list
NoVariants(source_path, original) ==
    \/ Falsy(original[1]) \/ Falsy(original[2])
    \/ Lower(source_path.suffix) \notin AllowedSuffixes

\* the list generate_variants returns
generate_variants(source_path, dist_path, widths, original) ==
    IF NoVariants(source_path, original) THEN <<>>
    ELSE LET kept == KeptWidths(widths, original[1])
         IN  [i \in 1..Len(kept) |-> <<TargetPath(dist_path, kept[i]), kept[i]>>]
             \o <<<<dist_path, original[1]>>>>

\* the resizes generate_variants performs when `files` is what exists in the
\* output directory as it starts: one per kept width whose destination is missing
\* (a width listed twice is resized once: the second finds the file of the first)
VariantResizes(source_path, dist_path, widths, original, files) ==
    IF NoVariants(source_path, original) THEN {}
    ELSE LET kept == KeptWidths(widths, original[1])
         IN  {[path |-> TargetPath(dist_path, kept[i]),
               width |-> kept[i],
               height |-> TargetHeight(original[1], original[2], kept[i])] :
                 i \in {j \in 1..Len(kept) :
                          ~SkipResize(TargetPath(dist_path, kept[j]), files)}}

\* sorted(srcset, key=lambda item: item[1]): a stable sort by width
RECURSIVE InsertByWidth(_, _)
InsertByWidth(sorted, item) ==
    IF sorted = <<>> THEN <<item>>
    ELSE IF sorted[Len(sorted)][2] <= item[2] THEN sorted \o <<item>>
    ELSE InsertByWidth(SubSeq(sorted, 1, Len(sorted) - 1), item) \o <<sorted[Len(sorted)]>>

RECURSIVE SortedByWidth(_)
SortedByWidth(srcset) ==
    IF srcset = <<>> THEN <<>>
    ELSE InsertByWidth(SortedByWidth(SubSeq(srcset, 1, Len(srcset) - 1)),
                       srcset[Len(srcset)])

\* the test written with > for >=: an entry of exactly the target width is passed over
WiderThan(candidate_width, target_width) == candidate_width > target_width

\* the test of the loop of choose_primary_src
WideEnough(candidate_width, target_width) == candidate_width >= target_width

choose_primary_src(srcset, fallback, target_width) ==
    IF srcset = <<>> THEN fallback
    ELSE LET sorted_srcset == SortedByWidth(srcset)
             hits == {i \in 1..Len(sorted_srcset) :
                        WideEnough(sorted_srcset[i][2], target_width)}
         IN  IF hits # {}
             THEN sorted_srcset[CHOOSE i \in hits : \A j \in hits : i <= j][1]
             ELSE sorted_srcset[Len(sorted_srcset)][1]


(***************************************************************************)
(* Text.  A string is a sequence of atoms: "/" and " " stand for           *)
(* themselves, "http:" and "https:" for a scheme with its colon, and any   *)
(* other atom for a run of characters holding neither a slash nor white    *)
(* space.  strip, rstrip("/"), lstrip("/"), startswith, split("/") and     *)
(* concatenation all act on whole atoms.                                   *)
(***************************************************************************)
Slash == "/"
Space == " "

RECURSIVE LStrip(_, _)
LStrip(s, c) == IF s # <<>> /\ Head(s) = c THEN LStrip(Tail(s), c) ELSE s

RECURSIVE RStrip(_, _)
RStrip(s, c) ==
    IF s # <<>> /\ s[Len(s)] = c THEN RStrip(SubSeq(s, 1, Len(s) - 1), c) ELSE s

\* str.strip()
Strip(s) == RStrip(LStrip(s, Space), Space)

StartsWith(s, prefix) ==
    Len(s) >= Len(prefix) /\ SubSeq(s, 1, Len(prefix)) = prefix

\* s.split("/"): the segments between slashes, each a string (empty ones included)
RECURSIVE Split(_)
Split(s) ==
    IF \A i \in 1..Len(s) : s[i] # Slash THEN <<s>>
    ELSE LET i == CHOOSE k \in 1..Len(s) : s[k] = Slash /\ \A j \in 1..(k - 1) : s[j] # Slash
         IN  <<SubSeq(s, 1, i - 1)>> \o Split(SubSeq(s, i + 1, Len(s)))

\* "/".join(segments)
RECURSIVE Join(_)
Join(segments) ==
    IF segments = <<>> THEN <<>>
    ELSE IF Len(segments) = 1 THEN segments[1]
    ELSE segments[1] \o <<Slash>> \o Join(Tail(segments))

\* two slashes in a row somewhere in s
HasDoubleSlash(s) == \E i \in 1..(Len(s) - 1) : s[i] = Slash /\ s[i + 1] = Slash

(***************************************************************************)
(* Paths below the output root, as sequences of directory names            *)
(***************************************************************************)
\* the common leading part of two paths
RECURSIVE CommonLen(_, _)
CommonLen(a, b) ==
    IF a = <<>> \/ b = <<>> \/ Head(a) # Head(b) THEN 0
    ELSE 1 + CommonLen(Tail(a), Tail(b))

\* os.path.relpath(target, start) on normalized paths, then Path(...).as_posix()
RelPath(target, start) ==
    LET i    == CommonLen(target, start)
        ups  == [k \in 1..(Len(start) - i) |-> <<"..">>]
        down == [k \in 1..(Len(target) - i) |-> <<target[i + k]>>]
    IN  IF ups \o down = <<>> THEN <<".">> ELSE Join(ups \o down)

\* the name of a file, one atom
FileName(f) ==
    CASE f.stem = "index" /\ f.suffix = ".html" /\ f.tag = 0 -> "index.html"
      [] f.stem = "style" /\ f.suffix = ".css" /\ f.tag = 0 -> "style.css"
      [] f.stem = "sitemap" /\ f.suffix = ".xml" /\ f.tag = 0 -> "sitemap.xml"
      [] OTHER -> f.stem

(***************************************************************************)
(* URL resolution                                                          *)
(***************************************************************************)
\* base_url returned as written, its trailing slashes kept
BasePrefixRaw(base_url) == base_url

\* the value compute_assets_prefix returns when base_url is set
BasePrefix(base_url) == RStrip(base_url, Slash)

compute_assets_prefix(output_file, base_url) ==
    IF base_url # <<>> THEN BasePrefix(base_url)
    ELSE IF output_file.dir = <<>> THEN <<".">>
    ELSE RelPath(<<>>, output_file.dir)

is_absolute_url(value) ==
    LET v == Strip(value)
    IN  StartsWith(v, <<"http:", Slash, Slash>>) \/ StartsWith(v, <<"https:", Slash, Slash>>)

\* str(site.get(key, "") or "").strip().rstrip("/")
Setting(site, key) == RStrip(Strip(site[key]), Slash)

public_base_url(site) ==
    LET base_url == Setting(site, "base_url")
        site_url == Setting(site, "site_url")
    IN  IF is_absolute_url(base_url) THEN Some(base_url)
        ELSE IF site_url = <<>> THEN Nothing
        ELSE IF base_url # <<>> /\ ~StartsWith(base_url, <<Slash>>)
             THEN Some(site_url \o <<Slash>> \o base_url)
        ELSE Some(site_url \o base_url)

public_path_prefix(site) ==
    LET base_url == Setting(site, "base_url")
    IN  IF base_url = <<>> THEN <<>>
        ELSE IF is_absolute_url(base_url) THEN <<>>
        ELSE IF StartsWith(base_url, <<Slash>>) THEN base_url
        ELSE <<Slash>> \o base_url

join_relative_url(prefix0, path0) ==
    LET prefix == RStrip(prefix0, Slash)
        path   == LStrip(path0, Slash)
    IN  IF path = <<>> THEN (IF prefix # <<>> THEN prefix \o <<Slash>> ELSE <<Slash>>)
        ELSE IF prefix = <<>> THEN <<Slash>> \o path
        ELSE prefix \o <<Slash>> \o path

\* the dot-segment loop of urllib.parse.urljoin
RECURSIVE ResolveSegments(_, _)
ResolveSegments(segments, resolved) ==
    IF segments = <<>> THEN resolved
    ELSE LET seg == Head(segments)
         IN  IF seg = <<"..">>
             THEN ResolveSegments(Tail(segments),
                    IF resolved # <<>> THEN SubSeq(resolved, 1, Len(resolved) - 1)
                    ELSE resolved)
             ELSE IF seg = <<".">> THEN ResolveSegments(Tail(segments), resolved)
             ELSE ResolveSegments(Tail(segments), resolved \o <<seg>>)

\* segments[1:-1] = filter(None, segments[1:-1])
DropEmptyInside(segments) ==
    LET n == Len(segments)
        RECURSIVE Keep(_)
        Keep(i) == IF i >= n THEN <<>>
                   ELSE (IF segments[i] = <<>> THEN <<>> ELSE <<segments[i]>>) \o Keep(i + 1)
    IN  IF n <= 2 THEN segments ELSE <<segments[1]>> \o Keep(2) \o <<segments[n]>>

\* urllib.parse.urljoin(base, url) for a base "http(s)://netloc/path" and a url
\* that is a relative reference without scheme, netloc, query or fragment
urljoin(base, url) ==
    LET scheme == SubSeq(base, 1, 3)
        rest   == SubSeq(base, 4, Len(base))
        cut    == IF \E i \in 1..Len(rest) : rest[i] = Slash
                  THEN CHOOSE i \in 1..Len(rest) :
                         rest[i] = Slash /\ \A j \in 1..(i - 1) : rest[j] # Slash
                  ELSE Len(rest) + 1
        netloc == SubSeq(rest, 1, cut - 1)
        bpath  == SubSeq(rest, cut, Len(rest))
        parts0 == Split(bpath)
        base_parts == IF parts0[Len(parts0)] # <<>>
                      THEN SubSeq(parts0, 1, Len(parts0) - 1) ELSE parts0
        segments == IF url # <<>> /\ Head(url) = Slash THEN Split(url)
                    ELSE DropEmptyInside(base_parts \o Split(url))
        last == segments[Len(segments)]
        resolved == ResolveSegments(segments, <<>>)
                    \o (IF last = <<".">> \/ last = <<"..">> THEN <<<<>>>> ELSE <<>>)
        joined == IF Join(resolved) = <<>> THEN <<Slash>> ELSE Join(resolved)
    IN  IF url = <<>> THEN base
        ELSE scheme \o netloc \o (IF Head(joined) # Slash THEN <<Slash>> ELSE <<>>) \o joined

\* base and path put together without the slash between them
JoinWithoutSlash(base, path) == RStrip(base, Slash) \o LStrip(path, Slash)

\* urljoin(base.rstrip("/") + "/", path.lstrip("/"))
join_absolute_url(base, path) ==
    urljoin(RStrip(base, Slash) \o <<Slash>>, LStrip(path, Slash))

\* the canonical_url render_page computes for a page path
canonical_url(site, page_path) ==
    LET absolute_base == public_base_url(site)
    IN  IF absolute_base # Nothing /\ absolute_base[1] # <<>>
        THEN join_absolute_url(absolute_base[1], page_path)
        ELSE join_relative_url(public_path_prefix(site), page_path)

(***************************************************************************)
(* Pagination                                                              *)
(***************************************************************************)
\* n // d: the division without math.ceil
Floor(n, d) == n \div d

\* math.ceil(n / d) for n >= 0, d > 0
Ceil(n, d) == (n + d - 1) \div d

total_pages(n) == Max2(1, Ceil(n, POSTS_PER_PAGE))

page_output_path(page_number) ==
    IF page_number = 1 THEN File(<<>>, "index", ".html")
    ELSE File(<<"page", ToString(page_number)>>, "index", ".html")


(***************************************************************************)
(* The source tree (ROOT): the images the posts refer to, the static       *)
(* directory and the posts directory.  It is the same in every run.        *)
(***************************************************************************)
\* an image reference of a post: the text written in the front matter
\* (spelling tells "static/a.jpg" from "./static/a.jpg") and the path it names
Image(spelling, path) == [spelling |-> spelling, path |-> path]

ImgA      == Image(0, File(<<"static">>, "a", ".jpg"))
ImgADot   == Image(1, File(<<"static">>, "a", ".jpg"))
ImgB      == Image(0, File(<<"static">>, "b", ".png"))
ImgC      == Image(0, File(<<"static">>, "c", ".gif"))
ImgGone   == Image(0, File(<<"static">>, "gone", ".jpg"))
ImgE      == Image(0, File(<<"photos">>, "e", ".JPG"))
ImgAbs    == Image(0, AbsFile(<<"home", "me">>, "d", ".jpg"))

\* the size PIL reports for a file of the source tree; NoDims for a missing
\* or unreadable one
SourceSize(path) ==
    CASE path = ImgA.path   -> <<800, 600>>
      [] path = ImgB.path   -> <<720, 480>>
      [] path = ImgC.path   -> <<640, 480>>
      [] path = ImgE.path   -> <<1200, 800>>
      [] path = ImgAbs.path -> <<2000, 1000>>
      [] OTHER -> NoDims

image_dimensions(image_path) == SourceSize(image_path)

\* what copy_assets puts into the output directory: theme.css as style.css,
\* the static tree, robots.txt
StaticFiles == {ImgA.path, ImgB.path, ImgC.path}

CopiedAssets ==
    {File(<<>>, "style", ".css"), File(<<>>, "robots", ".txt")} \cup StaticFiles

\* the outcome of parse_post on a source file
Ok == "ok"
MalformedPost == "MalformedPost"
InvalidDate == "InvalidDate"
InvalidImageEntry == "InvalidImageEntry"
ConfigNotFound == "ConfigNotFound"

PostFile(dir, stem, outcome, date, images) ==
    [dir |-> dir, stem |-> stem, outcome |-> outcome, date |-> date, images |-> images]

\* the posts directory in path order, the order sorted(glob) yields
PostFiles ==
    << PostFile(<<>>, "first", Ok, <<2023, 12, 31>>, <<ImgC, ImgGone, ImgAbs, ImgB>>),
       PostFile(<<>>, "hello", Ok, <<2024, 1, 2>>, <<ImgA, ImgA, ImgADot>>),
       PostFile(<<>>, "second", Ok, <<2024, 1, 2>>, <<ImgE, ImgA>>),
       PostFile(<<>>, "text", Ok, <<2024, 1, 2>>, <<>>),
       PostFile(<<"trips">>, "hello", Ok, <<2024, 1, 20>>, <<>>) >>

BrokenFiles ==
    { PostFile(<<>>, "zz", MalformedPost, <<>>, <<>>),
      PostFile(<<>>, "zz", InvalidDate, <<>>, <<>>),
      PostFile(<<>>, "zz", InvalidImageEntry, <<2024, 2, 1>>, <<>>) }

\* the sub-sequence of s at the indices in keep
RECURSIVE Pick(_, _, _)
Pick(s, keep, i) ==
    IF i > Len(s) THEN <<>>
    ELSE (IF i \in keep THEN <<s[i]>> ELSE <<>>) \o Pick(s, keep, i + 1)

PostDirs ==
    {Pick(PostFiles, keep, 1) \o tail :
       keep \in SUBSET (1..Len(PostFiles)),
       tail \in {<<>>} \cup {<<b>> : b \in BrokenFiles}}

(***************************************************************************)
(* Posts                                                                   *)
(***************************************************************************)
\* f"{n:02d}"
Pad2(n) == IF n < 10 THEN "0" \o ToString(n) ELSE ToString(n)

\* f"{date.year}/{date.month:02d}/{slug}/"
PostUrl(date, slug) ==
    <<ToString(date[1]), Slash, Pad2(date[2]), Slash, slug, Slash>>

\* DIST_DIR / str(year) / f"{month:02d}" / slug / "index.html"
PostOutput(post) ==
    File(<<ToString(post.date[1]), Pad2(post.date[2]), post.slug>>, "index", ".html")

\* the Post parse_post builds from a well-formed file
parse_post(file) ==
    [source |-> <<file.dir, file.stem>>,
     date |-> file.date,
     images |-> file.images,
     slug |-> file.stem,
     url |-> PostUrl(file.date, file.stem),
     images_meta |-> <<>>]

DateLess(a, b) ==
    \/ a[1] < b[1]
    \/ a[1] = b[1] /\ a[2] < b[2]
    \/ a[1] = b[1] /\ a[2] = b[2] /\ a[3] < b[3]

\* posts.sort(key=lambda p: p.date, reverse=True): stable, newest first
RECURSIVE InsertNewestFirst(_, _)
InsertNewestFirst(sorted, post) ==
    IF sorted = <<>> THEN <<post>>
    ELSE IF ~DateLess(sorted[Len(sorted)].date, post.date) THEN sorted \o <<post>>
    ELSE InsertNewestFirst(SubSeq(sorted, 1, Len(sorted) - 1), post)
           \o <<sorted[Len(sorted)]>>

RECURSIVE SortNewestFirst(_)
SortNewestFirst(ps) ==
    IF ps = <<>> THEN <<>>
    ELSE InsertNewestFirst(SortNewestFirst(SubSeq(ps, 1, Len(ps) - 1)), ps[Len(ps)])

\* the first file of the directory that parse_post rejects, 0 if none
FirstBroken(files) ==
    IF \E i \in 1..Len(files) : files[i].outcome # Ok
    THEN CHOOSE i \in 1..Len(files) :
           files[i].outcome # Ok /\ \A j \in 1..(i - 1) : files[j].outcome = Ok
    ELSE 0

(***************************************************************************)
(* Site configurations                                                     *)
(***************************************************************************)
Site(base_url, site_url) == [base_url |-> base_url, site_url |-> site_url]

Origin == <<"http:", Slash, Slash, "example.com">>

BaseUrls ==
    { <<>>, <<Space>>, <<Slash>>, <<Slash, "blog">>, <<"blog">>, <<Slash, "blog", Slash>>,
      <<"blog", Slash, Slash>>, <<Space, Slash, "blog", Space>>,
      <<Slash, Slash, "blog">>, <<Slash, "a", Slash, Slash, "b">>,
      Origin, Origin \o <<Slash>>, Origin \o <<Slash, "blog">>,
      <<"https:", Slash, Slash, "example.com", Slash, "blog", Slash>> }

SiteUrls ==
    { <<>>, <<Space>>, Origin, Origin \o <<Slash>>,
      <<"https:", Slash, Slash, "example.com", Slash, "root">> }

Sites == {Site(b, u) : b \in BaseUrls, u \in SiteUrls}

\* the configurations the runs of main are modelled under
MainSites == {Site(<<>>, <<>>), Site(<<Slash, "blog">>, <<>>), Site(<<>>, Origin)}


(***************************************************************************)
(* State                                                                   *)
(***************************************************************************)
MaxRuns == 2

VARIABLES
    pc,             \* where main stands
    run,            \* the number of this run of main
    config_exists,  \* args.config.exists()
    site,           \* the loaded site config
    posts_dir,      \* the files of POSTS_DIR, in path order
    dist,           \* DIST_DIR: the files in it, each with the run that wrote it
    previous,       \* DIST_DIR as this run of main found it
    posts,          \* the list collect_posts returned
    cache,          \* attach_image_meta: image -> dimensions
    variants_cache, \* attach_image_meta: image -> srcset
    cursor,         \* attach_image_meta: <<index of the post, index of its image>>
    metas,          \* attach_image_meta: the ImageMeta list of the post at hand
    decoded,        \* the image_dimensions calls of this run, in order
    generated,      \* the generate_variants calls of this run, in order
    resized,        \* every img.resize(...).save(...) so far, with its run
    rendered,       \* the documents render_page has written in this run
    sitemap,        \* the url entries write_sitemap has written in this run
    error,          \* the fatal error main died of, or None
    args,           \* a function called on its own: its arguments
    ret             \* and what it returned

mainVars == <<pc, run, config_exists, site, posts_dir, dist, previous, posts, cache,
              variants_cache, cursor, metas, decoded, generated, resized, rendered,
              sitemap, error>>
callVars == <<args, ret>>
vars == <<pc, run, config_exists, site, posts_dir, dist, previous, posts, cache,
          variants_cache, cursor, metas, decoded, generated, resized, rendered,
          sitemap, error, args, ret>>

\* the files present in the output directory
Files(d) == {e.file : e \in d}

Written(files, r) == {[file |-> f, run |-> r] : f \in files}

\* what an earlier build left in DIST_DIR: pages, assets and variants
PreviousBuild ==
    Written({File(<<>>, "index", ".html"), File(<<>>, "style", ".css"),
             File(<<"2023", "11", "old">>, "index", ".html"),
             TargetPath(ImgA.path, 480), ImgA.path}, 0)

\* the per-run state of main as a run starts
FreshRun ==
    /\ posts = <<>>
    /\ cache = <<>>
    /\ variants_cache = <<>>
    /\ cursor = <<1, 1>>
    /\ metas = <<>>
    /\ decoded = <<>>
    /\ generated = <<>>
    /\ rendered = <<>>
    /\ sitemap = <<>>
    /\ error = None

Init ==
    /\ pc = "start"
    /\ run = 1
    /\ config_exists \in BOOLEAN
    /\ site \in MainSites
    /\ posts_dir \in PostDirs
    /\ dist \in {{}, PreviousBuild}
    /\ previous = dist
    /\ FreshRun
    /\ resized = {}
    /\ args = None
    /\ ret = None

(***************************************************************************)
(* main                                                                    *)
(***************************************************************************)
\* main, lines 603-604: no config, SystemExit before anything is written
ConfigMissing ==
    /\ pc = "start"
    /\ ~config_exists
    /\ pc' = "aborted"
    /\ error' = ConfigNotFound
    /\ UNCHANGED <<run, config_exists, site, posts_dir, dist, previous, posts, cache,
                   variants_cache, cursor, metas, decoded, generated, resized,
                   rendered, sitemap, args, ret>>

\* what ensure_empty_dir leaves of a directory
ensure_empty_dir(d) == {}

\* main, lines 606-608: load_config, then ensure_empty_dir(DIST_DIR)
EnsureEmptyDir ==
    /\ pc = "start"
    /\ config_exists
    /\ dist' = ensure_empty_dir(dist)
    /\ pc' = "copy_assets"
    /\ UNCHANGED <<run, config_exists, site, posts_dir, previous, posts, cache,
                   variants_cache, cursor, metas, decoded, generated, resized,
                   rendered, sitemap, error, args, ret>>

\* copy_assets
CopyAssets ==
    /\ pc = "copy_assets"
    /\ dist' = {e \in dist : e.file \notin CopiedAssets} \cup Written(CopiedAssets, run)
    /\ pc' = "collect_posts"
    /\ UNCHANGED <<run, config_exists, site, posts_dir, previous, posts, cache,
                   variants_cache, cursor, metas, decoded, generated, resized,
                   rendered, sitemap, error, args, ret>>

\* collect_posts: every file parses, the list is sorted newest first
CollectPosts ==
    /\ pc = "collect_posts"
    /\ FirstBroken(posts_dir) = 0
    /\ posts' = SortNewestFirst([i \in 1..Len(posts_dir) |-> parse_post(posts_dir[i])])
    /\ pc' = "attach_image_meta"
    /\ cursor' = <<1, 1>>
    /\ metas' = <<>>
    /\ UNCHANGED <<run, config_exists, site, posts_dir, dist, previous, cache,
                   variants_cache, decoded, generated, resized, rendered, sitemap, error,
                   args, ret>>

\* collect_posts: parse_post raises ValueError on a file and main dies of it
CollectPostsFails ==
    /\ pc = "collect_posts"
    /\ FirstBroken(posts_dir) # 0
    /\ error' = posts_dir[FirstBroken(posts_dir)].outcome
    /\ pc' = "aborted"
    /\ UNCHANGED <<run, config_exists, site, posts_dir, dist, previous, posts, cache,
                   variants_cache, cursor, metas, decoded, generated, resized,
                   rendered, sitemap, args, ret>>

(***************************************************************************)
(* attach_image_meta                                                       *)
(***************************************************************************)
\* the lookup without the memo: every reference counts as new
CacheMissAlways(image, c) == TRUE

\* `image not in cache`
CacheMiss(image, c) == image \notin DOMAIN c

ImageMeta(image, width, height, srcset, primary_src) ==
    [path |-> image, width |-> width, height |-> height, srcset |-> srcset,
     primary_src |-> primary_src]

\* the srcset attach_image_meta caches for an image on a cache miss
VariantsFor(image, original) ==
    IF image.path.abs THEN <<>>
    ELSE generate_variants(image.path, image.path, RESPONSIVE_WIDTHS, original)

\* the body of the inner loop, for the image the cursor stands on
AttachImage ==
    /\ pc = "attach_image_meta"
    /\ cursor[1] <= Len(posts)
    /\ cursor[2] <= Len(posts[cursor[1]].images)
    /\ LET image == posts[cursor[1]].images[cursor[2]]
           miss  == CacheMiss(image, cache)
           dims  == image_dimensions(image.path)
           ops   == IF miss /\ ~image.path.abs
                    THEN VariantResizes(image.path, image.path, RESPONSIVE_WIDTHS,
                                        dims, Files(dist))
                    ELSE {}
           cache1 == IF miss THEN (image :> dims) @@ cache ELSE cache
           vcache1 == IF miss THEN (image :> VariantsFor(image, dims)) @@ variants_cache
                      ELSE variants_cache
           variants == vcache1[image]
       IN  /\ cache' = cache1
           /\ variants_cache' = vcache1
           /\ decoded' = IF miss THEN Append(decoded, image) ELSE decoded
           /\ generated' = IF miss /\ ~image.path.abs THEN Append(generated, image)
                           ELSE generated
           /\ dist' = dist \cup Written({o.path : o \in ops}, run)
           /\ resized' = resized \cup {[op |-> o, run |-> run] : o \in ops}
           /\ metas' = Append(metas,
                 ImageMeta(image, cache1[image][1], cache1[image][2], variants,
                           choose_primary_src(variants, image.path, TargetDisplayWidth)))
    /\ cursor' = <<cursor[1], cursor[2] + 1>>
    /\ UNCHANGED <<pc, run, config_exists, site, posts_dir, previous, posts, rendered, sitemap,
                   error, args, ret>>

\* the end of the inner loop: post.images_meta = metas
AttachPost ==
    /\ pc = "attach_image_meta"
    /\ cursor[1] <= Len(posts)
    /\ cursor[2] > Len(posts[cursor[1]].images)
    /\ posts' = [posts EXCEPT ![cursor[1]].images_meta = metas]
    /\ metas' = <<>>
    /\ cursor' = <<cursor[1] + 1, 1>>
    /\ UNCHANGED <<pc, run, config_exists, site, posts_dir, dist, previous, cache,
                   variants_cache, decoded, generated, resized, rendered, sitemap, error,
                   args, ret>>

\* the end of the outer loop
AttachDone ==
    /\ pc = "attach_image_meta"
    /\ cursor[1] > Len(posts)
    /\ pc' = "build"
    /\ cursor' = <<1, 1>>
    /\ UNCHANGED <<run, config_exists, site, posts_dir, dist, previous, posts, cache,
                   variants_cache, metas, decoded, generated, resized, rendered, sitemap,
                   error, args, ret>>


(***************************************************************************)
(* render_page and build                                                   *)
(***************************************************************************)
\* what render_page hands to the template and writes to output_path; `listing`
\* is the pagination context of a listing page, Nothing for a post page
render_page(template_name, output_path, s, page_path, listing) ==
    [template |-> template_name,
     output_path |-> output_path,
     page_path |-> page_path,
     assets_prefix |-> compute_assets_prefix(output_path, s.base_url),
     canonical_url |-> canonical_url(s, page_path),
     listing |-> listing]

IsIndex(f) == FileName(f) = "index.html"

\* the link text without the trailing slash and without "./"
LinkTextBare(rel_posix) == RStrip(rel_posix, Slash)

\* the link text rel_link gives a path relative to the directory of from_output
LinkText(rel_posix) == RStrip(rel_posix, Slash) \o <<Slash>>

\* build.rel_link
rel_link(from_output, to_output) ==
    LET target == IF IsIndex(to_output) THEN to_output.dir
                  ELSE to_output.dir \o <<FileName(to_output)>>
        rel_posix == RelPath(target, from_output.dir)
    IN  IF rel_posix = <<>> \/ rel_posix = <<".">>
        THEN (IF IsIndex(to_output) THEN <<".", Slash>> ELSE rel_posix)
        ELSE (IF IsIndex(to_output) THEN LinkText(rel_posix) ELSE rel_posix)

\* posts_list[start:end]
Slice(s, start, end) ==
    LET hi == IF end < Len(s) THEN end ELSE Len(s)
    IN  IF start >= hi THEN <<>> ELSE SubSeq(s, start + 1, hi)

\* "" if page_num == 1 else f"page/{page_num}/"
ListingPath(page_num) ==
    IF page_num = 1 THEN <<>> ELSE <<"page", Slash, ToString(page_num), Slash>>

\* the pagination context of page page_num and the posts on it
Listing(page_num, posts_list) ==
    LET start == (page_num - 1) * POSTS_PER_PAGE
        total == total_pages(Len(posts_list))
        page_posts == Slice(posts_list, start, start + POSTS_PER_PAGE)
    IN  [current_page |-> page_num,
         total_pages |-> total,
         prev_url |-> IF page_num > 1
                      THEN Some(rel_link(page_output_path(page_num),
                                         page_output_path(page_num - 1)))
                      ELSE Nothing,
         next_url |-> IF page_num < total
                      THEN Some(rel_link(page_output_path(page_num),
                                         page_output_path(page_num + 1)))
                      ELSE Nothing,
         posts |-> [i \in 1..Len(page_posts) |-> page_posts[i].source]]

\* build, lines 445-477: one pass of the loop over the listing pages
BuildListing ==
    /\ pc = "build"
    /\ cursor[1] <= total_pages(Len(posts))
    /\ LET page_num == cursor[1]
           out == page_output_path(page_num)
       IN  /\ rendered' = Append(rendered,
                 render_page("index.html", out, site, ListingPath(page_num),
                             Some(Listing(page_num, posts))))
           /\ dist' = {e \in dist : e.file # out} \cup Written({out}, run)
    /\ cursor' = <<cursor[1] + 1, 1>>
    /\ UNCHANGED <<sitemap, pc, run, config_exists, site, posts_dir, previous, posts, cache,
                   variants_cache, metas, decoded, generated, resized, error,
                   args, ret>>

\* build: the loop over the listing pages is over
BuildListingsDone ==
    /\ pc = "build"
    /\ cursor[1] > total_pages(Len(posts))
    /\ pc' = "build_posts"
    /\ cursor' = <<1, 1>>
    /\ UNCHANGED <<run, config_exists, site, posts_dir, dist, previous, posts, cache,
                   variants_cache, metas, decoded, generated, resized, rendered, sitemap,
                   error, args, ret>>

\* build, lines 491-509: one pass of the loop over the posts
BuildPost ==
    /\ pc = "build_posts"
    /\ cursor[1] <= Len(posts)
    /\ LET post == posts[cursor[1]]
           out == PostOutput(post)
       IN  /\ rendered' = Append(rendered,
                 render_page("post.html", out, site, post.url, Nothing))
           /\ dist' = {e \in dist : e.file # out} \cup Written({out}, run)
    /\ cursor' = <<cursor[1] + 1, 1>>
    /\ UNCHANGED <<sitemap, pc, run, config_exists, site, posts_dir, previous, posts, cache,
                   variants_cache, metas, decoded, generated, resized, error,
                   args, ret>>

\* build returns
BuildDone ==
    /\ pc = "build_posts"
    /\ cursor[1] > Len(posts)
    /\ pc' = "write_sitemap"
    /\ cursor' = <<1, 1>>
    /\ UNCHANGED <<run, config_exists, site, posts_dir, dist, previous, posts, cache,
                   variants_cache, metas, decoded, generated, resized, rendered, sitemap,
                   error, args, ret>>

(***************************************************************************)
(* The description of a page: normalize_meta_text, infer_post_description  *)
(***************************************************************************)
Lt == "<"
Gt == ">"
Newline == "\n"
Tab == "\t"

\* what the pattern \s matches
IsWhite(c) == c \in {Space, Newline, Tab}

\* the numbers 1..Len(s), in order
Indices(s) == [i \in 1..Len(s) |-> i]

\* re.sub(r"<[^>]+>", " ", html): every match, found from left to right, gives
\* way to one space.  A match starts at a "<" whose next character is not ">" and
\* ends at the first ">" behind that character.
StripTags(html) ==
    LET n == Len(html)
        closes(i) == {j \in (i + 2)..n : html[j] = Gt}
        end(i) == CHOOSE j \in closes(i) : \A k \in closes(i) : j <= k
        opens(i) == html[i] = Lt /\ i < n /\ html[i + 1] # Gt /\ closes(i) # {}
        \* a match starts at i: no attempt further left has swallowed i
        starts(i) == opens(i) /\ \A k \in 1..(i - 1) : opens(k) => end(k) < i
        inside(i) == \E k \in 1..(i - 1) : starts(k) /\ i <= end(k)
        kept == SelectSeq(Indices(html), LAMBDA i : ~inside(i))
    IN  [k \in 1..Len(kept) |-> IF starts(kept[k]) THEN Space ELSE html[kept[k]]]

\* re.sub(r"\s+", " ", value or "").strip()
normalize_meta_text(value) ==
    LET kept == SelectSeq(Indices(value),
                          LAMBDA i : ~IsWhite(value[i]) \/ i = 1 \/ ~IsWhite(value[i - 1]))
        one  == [k \in 1..Len(kept) |->
                   IF IsWhite(value[kept[k]]) THEN Space ELSE value[kept[k]]]
        from == IF one # <<>> /\ one[1] = Space THEN 2 ELSE 1
        to   == IF one # <<>> /\ one[Len(one)] = Space THEN Len(one) - 1 ELSE Len(one)
    IN  SubSeq(one, from, to)

\* the length text[:160] cuts to
DescriptionLength == 160

\* the text without a cut
Uncut(text) == text

\* text[:160]
Cut(text) ==
    SubSeq(text, 1, IF Len(text) < DescriptionLength THEN Len(text) ELSE DescriptionLength)

\* str.rstrip()
RStripWhite(text) ==
    LET solid == {i \in 1..Len(text) : ~IsWhite(text[i])}
    IN  IF solid = {} THEN <<>>
        ELSE SubSeq(text, 1, CHOOSE i \in solid : \A j \in solid : j <= i)

\* a value an `if` takes for true: not None and not empty
Truthy(v) == v # Nothing /\ v[1] # <<>>

\* build.infer_post_description
infer_post_description(post, s) ==
    IF Truthy(post.excerpt) THEN post.excerpt[1]
    ELSE IF Truthy(post.title) THEN post.title[1]
    ELSE LET text == normalize_meta_text(StripTags(post.body_html))
         IN  IF post.body_html # <<>> /\ text # <<>> THEN RStripWhite(Cut(text))
             ELSE s.description

\* render_page, lines 386-389: the page_description handed to the template
page_description(given, s) ==
    normalize_meta_text(IF given # <<>> THEN given ELSE s.description)

(***************************************************************************)
(* write_sitemap                                                           *)
(***************************************************************************)
\* date.isoformat()
IsoFormat(date) == <<ToString(date[1]), "-", Pad2(date[2]), "-", Pad2(date[3])>>

\* Path(...).as_posix() of a path of the source tree
PathText(f) ==
    (IF f.abs THEN <<Slash>> ELSE <<>>)
        \o Join([k \in 1..Len(f.dir) |-> <<f.dir[k]>>] \o <<<<f.stem \o f.suffix>>>>)

\* the text of an image reference as the front matter spells it
ImageText(image) ==
    (IF image.spelling = 1 THEN <<".", Slash>> ELSE <<>>) \o PathText(image.path)

\* write_sitemap.loc
loc(s, path) ==
    LET absolute_base == public_base_url(s)
    IN  IF absolute_base # Nothing /\ absolute_base[1] # <<>>
        THEN join_absolute_url(absolute_base[1], path)
        ELSE join_relative_url(public_path_prefix(s), path)

\* write_sitemap.asset_url
asset_url(s, image) ==
    IF ImageText(image) = <<>> THEN Nothing
    ELSE IF is_absolute_url(ImageText(image)) THEN Some(ImageText(image))
    ELSE IF image.path.abs THEN Nothing
    ELSE Some(loc(s, PathText(image.path)))

\* the last post of the list, the oldest one
NewestPostOldest(posts_list) == posts_list[Len(posts_list)]

\* newest_post = posts[0]
NewestPost(posts_list) == posts_list[1]

\* lastmod_feed: the date of the newest post, None without posts
lastmod_feed(posts_list) ==
    IF posts_list = <<>> THEN Nothing ELSE Some(IsoFormat(NewestPost(posts_list).date))

\* write_sitemap.add_url: one url element; lastmod is left out when it is falsy
add_url(s, path, lastmod, images) ==
    [loc |-> loc(s, path),
     lastmod |-> IF lastmod = Nothing \/ lastmod[1] = <<>> THEN Nothing ELSE lastmod,
     images |-> images]

\* the image locations of a post entry
SitemapImages(s, post) ==
    LET urls == [k \in 1..Len(post.images_meta) |-> asset_url(s, post.images_meta[k].path)]
        kept == SelectSeq(urls, LAMBDA u : u # Nothing /\ u[1] # <<>>)
    IN  [k \in 1..Len(kept) |-> kept[k][1]]

\* the url elements of the sitemap, in document order
write_sitemap(posts_list, s) ==
    LET total == total_pages(Len(posts_list))
    IN  <<add_url(s, <<>>, lastmod_feed(posts_list), <<>>)>>
        \o [k \in 1..(total - 1) |->
               add_url(s, ListingPath(k + 1), lastmod_feed(posts_list), <<>>)]
        \o [k \in 1..Len(posts_list) |->
               add_url(s, posts_list[k].url, Some(IsoFormat(posts_list[k].date)),
                       SitemapImages(s, posts_list[k]))]

\* write_sitemap and rewrite_dist_robots: sitemap.xml is written, robots.txt
\* (copied by copy_assets) rewritten; main returns 0
Finish ==
    /\ pc = "write_sitemap"
    /\ sitemap' = write_sitemap(posts, site)
    /\ LET out == {File(<<>>, "sitemap", ".xml")}
                    \cup (Files(dist) \cap {File(<<>>, "robots", ".txt")})
       IN  dist' = {e \in dist : e.file \notin out} \cup Written(out, run)
    /\ pc' = "done"
    /\ UNCHANGED <<run, config_exists, site, posts_dir, previous, posts, cache,
                   variants_cache, cursor, metas, decoded, generated, resized,
                   rendered, error, args, ret>>

\* the generator is run again on the same inputs
RunAgain ==
    /\ pc \in {"done", "aborted"}
    /\ run < MaxRuns
    /\ run' = run + 1
    /\ pc' = "start"
    /\ previous' = dist
    /\ posts' = <<>>
    /\ cache' = <<>>
    /\ variants_cache' = <<>>
    /\ cursor' = <<1, 1>>
    /\ metas' = <<>>
    /\ decoded' = <<>>
    /\ generated' = <<>>
    /\ rendered' = <<>>
    /\ sitemap' = <<>>
    /\ error' = None
    /\ UNCHANGED <<config_exists, site, posts_dir, dist, resized, args, ret>>

Next ==
    \/ ConfigMissing
    \/ EnsureEmptyDir
    \/ CopyAssets
    \/ CollectPosts
    \/ CollectPostsFails
    \/ AttachImage
    \/ AttachPost
    \/ AttachDone
    \/ BuildListing
    \/ BuildListingsDone
    \/ BuildPost
    \/ BuildDone
    \/ Finish
    \/ RunAgain

Spec == Init /\ [][Next]_vars

(***************************************************************************)
(* build on its own: a list of posts and a site config, as main hands them *)
(***************************************************************************)
MaxPosts == 23

\* a list of n posts without images, newest first
PostList(n) ==
    [i \in 1..n |-> parse_post(PostFile(<<>>, "p" \o ToString(i), Ok,
                                         <<2024 - (i \div 28), 12, 28 - (i % 28)>>, <<>>))]

\* the post of the examples, 2024/01/x/, and ten older ones behind it
ExamplePosts(n) ==
    <<parse_post(PostFile(<<>>, "x", Ok, <<2024, 1, 2>>, <<>>))>>
        \o [i \in 1..n |-> parse_post(PostFile(<<>>, "p" \o ToString(i), Ok,
                                                <<2023, 1, 1>>, <<>>))]

InitBuild(sites, lists) ==
    /\ pc \in {"build", "write_sitemap"}
    /\ run = 1
    /\ config_exists = TRUE
    /\ site \in sites
    /\ posts_dir = <<>>
    /\ dist = {}
    /\ previous = {}
    /\ posts \in lists
    /\ cache = <<>>
    /\ variants_cache = <<>>
    /\ cursor = <<1, 1>>
    /\ metas = <<>>
    /\ decoded = <<>>
    /\ generated = <<>>
    /\ rendered = <<>>
    /\ sitemap = <<>>
    /\ error = None
    /\ resized = {}
    /\ args = None
    /\ ret = None

NextBuild ==
    \/ BuildListing
    \/ BuildListingsDone
    \/ BuildPost
    \/ BuildDone

InitPages ==
    /\ InitBuild(MainSites, {PostList(n) : n \in 0..MaxPosts})
    /\ pc = "build"

SpecPages == InitPages /\ [][NextBuild]_vars

InitUrl ==
    /\ InitBuild(Sites, {ExamplePosts(0), ExamplePosts(POSTS_PER_PAGE)})
    /\ pc = "build"

SpecUrl == InitUrl /\ [][NextBuild]_vars

(***************************************************************************)
(* generate_variants and choose_primary_src on their own                   *)
(***************************************************************************)
MaxWidths == 2
MaxSrcset == 3

\* the sequences over S of length at most n
SeqsUpTo(S, n) == UNION {[1..k -> S] : k \in 0..n}

SrcWidths == {Unknown, 0, 1, 480, 481, 704, 1081, 2000}
SrcHeights == {Unknown, 1, 600, 1155}
WidthLists == SeqsUpTo({480, 720, 1080}, MaxWidths) \cup {RESPONSIVE_WIDTHS}
Suffixes == {".jpg", ".JPG", ".png", ".gif"}

InitCall(calls, before) ==
    /\ pc = "call"
    /\ args \in calls
    /\ ret = None
    /\ run = 1
    /\ config_exists = TRUE
    /\ site = Site(<<>>, <<>>)
    /\ posts_dir = <<>>
    /\ dist \in before
    /\ previous = dist
    /\ posts = <<>>
    /\ cache = <<>>
    /\ variants_cache = <<>>
    /\ cursor = <<1, 1>>
    /\ metas = <<>>
    /\ decoded = <<>>
    /\ generated = <<>>
    /\ rendered = <<>>
    /\ sitemap = <<>>
    /\ error = None
    /\ resized = {}

InitVariants ==
    InitCall({[source_path |-> File(<<"static">>, "a", x),
               dist_path |-> File(<<"static">>, "a", x),
               widths |-> t,
               original |-> <<w, h>>] :
                  x \in Suffixes, t \in WidthLists, w \in SrcWidths, h \in SrcHeights},
             {{}, Written({TargetPath(File(<<"static">>, "a", ".jpg"), 480)}, 0)})

\* generate_variants(source_path, dist_path, widths, original)
CallGenerateVariants ==
    /\ pc = "call"
    /\ LET ops == VariantResizes(args.source_path, args.dist_path, args.widths,
                                 args.original, Files(dist))
       IN  /\ ret' = generate_variants(args.source_path, args.dist_path, args.widths,
                                       args.original)
           /\ dist' = dist \cup Written({o.path : o \in ops}, run)
           /\ resized' = resized \cup {[op |-> o, run |-> run] : o \in ops}
    /\ pc' = "returned"
    /\ UNCHANGED <<run, config_exists, site, posts_dir, previous, posts, cache,
                   variants_cache, cursor, metas, decoded, generated, rendered, sitemap,
                   error, args>>

SpecVariants == InitVariants /\ [][CallGenerateVariants]_vars

SrcsetEntries ==
    { <<TargetPath(ImgE.path, 480), 480>>, <<TargetPath(ImgE.path, 1040), 1040>>,
      <<TargetPath(ImgE.path, 1080), 1080>>, <<TargetPath(ImgA.path, 1080), 1080>>,
      <<ImgE.path, 1200>> }

InitPrimary ==
    InitCall({[srcset |-> x, fallback |-> ImgE.path, target_width |-> t] :
                 x \in SeqsUpTo(SrcsetEntries, MaxSrcset),
                 t \in {481, TargetDisplayWidth, 1201}},
             {{}})

\* choose_primary_src(srcset, fallback, target_width)
CallChoosePrimarySrc ==
    /\ pc = "call"
    /\ ret' = choose_primary_src(args.srcset, args.fallback, args.target_width)
    /\ pc' = "returned"
    /\ UNCHANGED <<run, config_exists, site, posts_dir, dist, previous, posts, cache,
                   variants_cache, cursor, metas, decoded, generated, resized,
                   rendered, sitemap, error, args>>

SpecPrimary == InitPrimary /\ [][CallChoosePrimarySrc]_vars

(***************************************************************************)
(* write_sitemap on its own: the posts and the site config main hands it   *)
(***************************************************************************)
\* a post whose images have been through attach_image_meta: one below static/,
\* the same one spelled "./static/a.jpg", and one outside the source tree
PostWithImages ==
    [parse_post(PostFile(<<>>, "x", Ok, <<2024, 1, 2>>, <<ImgA, ImgADot, ImgAbs>>))
        EXCEPT !.images_meta =
            << ImageMeta(ImgA, 800, 600, <<<<ImgA.path, 800>>>>, ImgA.path),
               ImageMeta(ImgADot, 800, 600, <<<<ImgA.path, 800>>>>, ImgA.path),
               ImageMeta(ImgAbs, 2000, 1000, <<>>, ImgAbs.path) >>]

InitSitemap ==
    /\ InitBuild(Sites, {PostList(n) : n \in 0..MaxPosts}
                          \cup {<<PostWithImages>> \o ExamplePosts(1)})
    /\ pc = "write_sitemap"

SpecSitemap == InitSitemap /\ [][Finish]_vars

(***************************************************************************)
(* infer_post_description and render_page's page_description on their own  *)
(***************************************************************************)
\* a text is given as the pieces it is written from: words, runs of whitespace
\* and markup tags
Word(k, c) == [kind |-> "word", text |-> [i \in 1..k |-> c]]
White(text) == [kind |-> "white", text |-> text]
Tag(text) == [kind |-> "tag", text |-> <<Lt>> \o text \o <<Gt>>]

\* the string the pieces make
RECURSIVE Flatten(_)
Flatten(pieces) ==
    IF pieces = <<>> THEN <<>> ELSE Head(pieces).text \o Flatten(Tail(pieces))

OptionalText(pieces) == IF pieces = Nothing THEN Nothing ELSE Some(Flatten(pieces[1]))

WordLengths == {3, 158, 159, 160, 161}

Bodies ==
    { <<>>,
      <<Tag(<<"p">>), Tag(<<Slash, "p">>)>>,
      <<Tag(<<"p">>), Word(3, "a"), Tag(<<Slash, "p">>)>>,
      <<Tag(<<"p">>), Word(2, "a"), Tag(<<"e", "m">>), Word(2, "b"), Tag(<<Slash, "e", "m">>),
        White(<<Newline>>), Tag(<<Slash, "p">>)>>,
      <<White(<<Space>>), Tag(<<"a", Space, "h", "=", Slash, "x">>), Word(1, "a"),
        White(<<Newline, Tab, Space>>), Word(1, "b"), Word(1, "c")>> }
    \cup { <<Tag(<<"p">>), Word(k, "a"), White(<<Space>>), Word(2, "b"), Tag(<<Slash, "p">>)>> :
             k \in WordLengths }
    \cup { <<Tag(<<"p">>), Word(k, "a"), Tag(<<"b", "r", Slash>>), Word(2, "b")>> :
             k \in WordLengths }

Titles ==
    { Nothing, Some(<<>>), Some(<<Word(2, "t")>>),
      Some(<<White(<<Space>>), Word(1, "t"), White(<<Newline, Space>>), Word(1, "u")>>) }

Excerpts == {Nothing, Some(<<>>), Some(<<Word(2, "e"), White(<<Space, Space>>), Word(1, "f")>>)}

Descriptions == {<<>>, <<Word(2, "d")>>}

InitDescription ==
    InitCall({[excerpt |-> e, title |-> t, body |-> b, description |-> d] :
                 e \in Excerpts, t \in Titles, b \in Bodies, d \in Descriptions},
             {{}})

\* build hands infer_post_description(post) to render_page as page_description
CallInferPostDescription ==
    /\ pc = "call"
    /\ LET post == [excerpt |-> OptionalText(args.excerpt),
                    title |-> OptionalText(args.title),
                    body_html |-> Flatten(args.body)]
           s == [description |-> Flatten(args.description)]
           inferred == infer_post_description(post, s)
       IN  ret' = [inferred |-> inferred, page_description |-> page_description(inferred, s)]
    /\ pc' = "returned"
    /\ UNCHANGED <<run, config_exists, site, posts_dir, dist, previous, posts, cache,
                   variants_cache, cursor, metas, decoded, generated, resized,
                   rendered, sitemap, error, args>>

SpecDescription == InitDescription /\ [][CallInferPostDescription]_vars

(***************************************************************************)
(* parse_front_matter                                                      *)
(***************************************************************************)
\* str.lstrip()
LStripWhite(text) ==
    LET solid == {i \in 1..Len(text) : ~IsWhite(text[i])}
    IN  IF solid = {} THEN <<>>
        ELSE SubSeq(text, CHOOSE i \in solid : \A j \in solid : i <= j, Len(text))

\* str.strip()
StripWhite(text) == LStripWhite(RStripWhite(text))

\* raw.splitlines(): the lines of a text, the line ends dropped; a line end at
\* the end of the text opens no further line
RECURSIVE splitlines(_)
splitlines(raw) ==
    IF raw = <<>> THEN <<>>
    ELSE IF \A i \in 1..Len(raw) : raw[i] # Newline THEN <<raw>>
    ELSE LET i == CHOOSE k \in 1..Len(raw) :
                     raw[k] = Newline /\ \A j \in 1..(k - 1) : raw[j] # Newline
         IN  <<SubSeq(raw, 1, i - 1)>> \o splitlines(SubSeq(raw, i + 1, Len(raw)))

\* "\n".join(lines)
RECURSIVE JoinLines(_)
JoinLines(lines) ==
    IF lines = <<>> THEN <<>>
    ELSE IF Len(lines) = 1 THEN lines[1]
    ELSE lines[1] \o <<Newline>> \o JoinLines(Tail(lines))

Delimiters == {<<"+++">>, <<"++++">>}

\* a line that either token closes
ClosesAny(line, delimiter) == StripWhite(line) \in Delimiters

\* line.strip() == delimiter
Closes(line, delimiter) == StripWhite(line) = delimiter

\* tomllib.loads(front) succeeds: every line of the front matter is blank or
\* a key/value pair
TomlLoads(front) ==
    \A i \in 1..Len(splitlines(front)) : StripWhite(splitlines(front)[i]) \in {<<>>, <<"k=v">>}

EmptyPost == "Empty post"
BadOpening == "Front matter must start with +++ or ++++"
NoClosing == "Front matter closing not found"
TOMLDecodeError == "TOMLDecodeError"

Raised(e) == [ok |-> FALSE, error |-> e, front |-> <<>>, body |-> <<>>]

parse_front_matter(raw) ==
    LET lines == splitlines(raw)
        delimiter == StripWhite(lines[1])
        ends == {i \in 2..Len(lines) : Closes(lines[i], delimiter)}
        end_idx == CHOOSE i \in ends : \A j \in ends : i <= j
        front == JoinLines(SubSeq(lines, 2, end_idx - 1))
        body == LStripWhite(JoinLines(SubSeq(lines, end_idx + 1, Len(lines))))
    IN  IF lines = <<>> THEN Raised(EmptyPost)
        ELSE IF delimiter \notin Delimiters THEN Raised(BadOpening)
        ELSE IF ends = {} THEN Raised(NoClosing)
        ELSE IF ~TomlLoads(front) THEN Raised(TOMLDecodeError)
        ELSE [ok |-> TRUE, error |-> None, front |-> front, body |-> body]

(***************************************************************************)
(* parse_front_matter on its own: a post text, given as its lines          *)
(***************************************************************************)
MaxLines == 4

PostLines ==
    { <<>>, <<Space>>, <<"+++">>, <<"++++">>, <<Space, "+++", Tab>>, <<"k=v">>,
      <<Space, "x">> }

\* the text of the lines, each ended by a line end; the last one may lack it
\* when it is not empty
TextOf(lines, ended) ==
    JoinLines(lines) \o (IF ended /\ lines # <<>> THEN <<Newline>> ELSE <<>>)

InitFrontMatter ==
    InitCall({[lines |-> l, ended |-> e] :
                 l \in SeqsUpTo(PostLines, MaxLines), e \in BOOLEAN} \
             {[lines |-> l, ended |-> FALSE] :
                 l \in {x \in SeqsUpTo(PostLines, MaxLines) : x = <<>> \/ x[Len(x)] = <<>>}},
             {{}})

\* parse_front_matter(raw)
CallParseFrontMatter ==
    /\ pc = "call"
    /\ ret' = parse_front_matter(TextOf(args.lines, args.ended))
    /\ pc' = "returned"
    /\ UNCHANGED <<run, config_exists, site, posts_dir, dist, previous, posts, cache,
                   variants_cache, cursor, metas, decoded, generated, resized,
                   rendered, sitemap, error, args>>

SpecFrontMatter == InitFrontMatter /\ [][CallParseFrontMatter]_vars

(***************************************************************************)
(* write_feeds, the feed emitter of the full variant of the generator, as  *)
(* its test calls it: gen.write_feeds([post], site)                        *)
(***************************************************************************)
\* the address of a document of the site in absolute mode
feed_url(s, path) == join_absolute_url(public_base_url(s)[1], path)

\* the posts a feed lists: the first feed_max_posts of the list
FeedPosts(posts_list, s) ==
    SubSeq(posts_list, 1,
           IF Len(posts_list) < s.feed_max_posts THEN Len(posts_list) ELSE s.feed_max_posts)

\* one feed document: its rel=self link and one entry per listed post
FeedDocument(name, posts_list, s) ==
    [self |-> feed_url(s, <<name>>),
     entries |-> [k \in 1..Len(FeedPosts(posts_list, s)) |->
                    [link |-> feed_url(s, FeedPosts(posts_list, s)[k].url),
                     post |-> FeedPosts(posts_list, s)[k].source]]]

\* the Atom and the RSS document write_feeds writes
write_feeds(posts_list, s) ==
    [atom |-> FeedDocument("feed.xml", posts_list, s),
     rss |-> FeedDocument("rss.xml", posts_list, s)]

FeedFiles == {File(<<>>, "feed", ".xml"), File(<<>>, "rss", ".xml")}

\* the site of the test, and the post of the test
Localhost == <<"http:", Slash, Slash, "localhost:8080">>

HelloPost == parse_post(PostFile(<<>>, "hello", Ok, <<2024, 1, 2>>, <<>>))

FeedLimits == {1, 2, 25}

FeedSites ==
    {[base_url |-> b, site_url |-> u, feed_max_posts |-> m] :
        b \in {<<>>, <<Slash, "blog">>, <<"blog", Slash>>, Origin \o <<Slash, "blog">>},
        u \in {Localhost, Localhost \o <<Slash>>, Origin},
        m \in FeedLimits}

FeedLists == {<<HelloPost>> \o PostList(n) : n \in {0, 1, 2, 24, 25}} \cup {<<>>}

InitFeeds == InitCall({[posts |-> l, s |-> c] : l \in FeedLists, c \in FeedSites}, {{}})

\* gen.write_feeds(posts, site)
CallWriteFeeds ==
    /\ pc = "call"
    /\ ret' = write_feeds(args.posts, args.s)
    /\ dist' = {e \in dist : e.file \notin FeedFiles} \cup Written(FeedFiles, run)
    /\ pc' = "returned"
    /\ UNCHANGED <<run, config_exists, site, posts_dir, previous, posts, cache,
                   variants_cache, cursor, metas, decoded, generated, resized,
                   rendered, sitemap, error, args>>

SpecFeeds == InitFeeds /\ [][CallWriteFeeds]_vars

(***************************************************************************)
(* Properties of the runs of main                                          *)
(***************************************************************************)
FatalPostErrors == {MalformedPost, InvalidDate, InvalidImageEntry}

\* every ImageMeta attach_image_meta has produced so far in this run
AllMetas == Range(metas) \cup UNION {Range(posts[i].images_meta) : i \in 1..Len(posts)}

NoRepeat(s) == \A i, j \in 1..Len(s) : s[i] = s[j] => i = j

\* C1: when main dies of a fatal post error, the output directory holds nothing
\* written by this run, or it is still what the run found (the previous build)
C1_AbortLeavesNothingOrPrevious ==
    (pc = "aborted" /\ error \in FatalPostErrors) =>
        \/ {e \in dist : e.run = run} = {}
        \/ dist = previous

C3_VariantReusedByNextRun ==
    \A a, b \in resized : a.op.path = b.op.path => a.run = b.run

\* the images generate_variants makes a srcset for
HasVariants(m) ==
    /\ ~m.path.path.abs
    /\ ~Falsy(m.width)
    /\ ~Falsy(m.height)
    /\ Lower(m.path.path.suffix) \in AllowedSuffixes

\* the srcset of m is resized entries narrower than the source, then the original
\* at the source width
NarrowerThenOriginal(m) ==
    /\ m.srcset # <<>>
    /\ m.srcset[Len(m.srcset)] = <<m.path.path, m.width>>
    /\ \A k \in 1..(Len(m.srcset) - 1) :
          /\ m.srcset[k][2] < m.width
          /\ m.srcset[k][1] # m.path.path

\* C5 as claimed: every ImageMeta has the original in its srcset, as the widest
\* entry, and only narrower entries besides
C5_OriginalAlwaysWidest == \A m \in AllMetas : NarrowerThenOriginal(m)

\* C5: an ImageMeta of an asset-relative image with known dimensions and an
\* allowed suffix has the original in its srcset, as the widest entry, and only
\* narrower entries besides; the srcset of any other ImageMeta is empty
C5_OriginalWidestWhenVariants ==
    \A m \in AllMetas :
        IF HasVariants(m) THEN NarrowerThenOriginal(m) ELSE m.srcset = <<>>

\* a run has produced an ImageMeta with resized entries, one with the original
\* alone, and one with an empty srcset
C5_Witness ==
    /\ pc = "build"
    /\ \E m \in AllMetas : Len(m.srcset) >= 3
    /\ \E m \in AllMetas : Len(m.srcset) = 2 /\ m.width = 720
    /\ \E m \in AllMetas : m.srcset = <<>>

(***************************************************************************)
(* Properties of generate_variants and choose_primary_src                  *)
(***************************************************************************)
\* the call is one the claim speaks of: known dimensions, an allowed suffix
KnownAllowed(a) ==
    /\ a.original[1] >= 1
    /\ a.original[2] >= 1
    /\ Lower(a.source_path.suffix) \in AllowedSuffixes

\* the widths of the list below w, in order
NarrowerWidths(widths, w) == SelectSeq(widths, LAMBDA t : t < w)

\* the returned list: one entry per width of the list below W, then the original
VariantListExact(a, r) ==
    LET below == NarrowerWidths(a.widths, a.original[1])
    IN  /\ Len(r) = Len(below) + 1
        /\ \A k \in 1..Len(below) : r[k] = <<TargetPath(a.dist_path, below[k]), below[k]>>
        /\ r[Len(r)] = <<a.dist_path, a.original[1]>>

\* the list generate_variants returns is the one claimed
C4_ListExact ==
    (pc = "returned" /\ KnownAllowed(args)) => VariantListExact(args, ret)

\* C4: for a source of known size W x H with an allowed suffix, generate_variants
\* returns one entry per t of T with t < W, then the original at W, and every
\* variant it writes is resized to the height max(1, round(H * t / W))
C4_VariantsExact ==
    (pc = "returned" /\ KnownAllowed(args)) =>
        /\ VariantListExact(args, ret)
        /\ \A k \in 1..(Len(ret) - 1) : ret[k][1] \in Files(dist)
        /\ \A o \in resized :
              o.op.height =
                 Max2(1, RoundHalfEven(args.original[2] * o.op.width, args.original[1]))

\* C6: choose_primary_src returns the fallback for an empty srcset; otherwise the
\* path of an entry at least as wide as the target than which no such entry is
\* narrower; and when no entry is that wide, the path of a widest entry
C6_PrimarySrc ==
    pc = "returned" =>
        LET ss == args.srcset
            t  == args.target_width
            fit == {i \in 1..Len(ss) : ss[i][2] >= t}
        IN  IF ss = <<>> THEN ret = args.fallback
            ELSE IF fit # {}
            THEN \E i \in fit : ss[i][1] = ret /\ \A j \in fit : ss[i][2] <= ss[j][2]
            ELSE \E i \in 1..Len(ss) : ss[i][1] = ret /\ \A j \in 1..Len(ss) : ss[j][2] <= ss[i][2]

\* a call at the default target that has an entry of exactly that width, a wider
\* one before it and a narrower one
C6_Witness ==
    /\ pc = "returned"
    /\ args.target_width = TargetDisplayWidth
    /\ Len(args.srcset) = 3
    /\ args.srcset[1][2] = 1080
    /\ args.srcset[2][2] = 1040
    /\ args.srcset[3][2] = 480
    /\ ret = args.srcset[2][1]

(***************************************************************************)
(* Properties of build                                                     *)
(***************************************************************************)
Docs(template_name) == SelectSeq(rendered, LAMBDA d : d.template = template_name)

\* the relative path from a directory `depth` levels below the root up to the root
UpToRoot(depth) ==
    IF depth = 0 THEN <<".">> ELSE Join([k \in 1..depth |-> <<"..">>])

\* the directory a relative link leads to from directory `from`
RECURSIVE Walk(_, _)
Walk(from, segments) ==
    IF segments = <<>> THEN from
    ELSE LET seg == Head(segments)
         IN  IF seg = <<>> \/ seg = <<".">> THEN Walk(from, Tail(segments))
             ELSE IF seg = <<"..">>
             THEN Walk(SubSeq(from, 1, Len(from) - 1), Tail(segments))
             ELSE Walk(from \o seg, Tail(segments))

Resolve(from, link) == Walk(from, Split(link))

\* C7 as claimed: whatever the config, the asset prefix is the relative path from
\* the directory of the document up to the output root
C7_PrefixIgnoresConfig ==
    \A k \in 1..Len(rendered) :
        rendered[k].assets_prefix = UpToRoot(Len(rendered[k].output_path.dir))

\* C7: the asset prefix does not depend on site_url.  With an empty base_url it is
\* the relative path from the directory of the document up to the output root, "."
\* at the root and without a trailing slash; with a base_url it is that base_url
\* less its trailing slashes
C7_PrefixByBaseUrl ==
    \A k \in 1..Len(rendered) :
        LET d == rendered[k]
            b == site.base_url
        IN  IF b = <<>>
            THEN /\ d.assets_prefix = UpToRoot(Len(d.output_path.dir))
                 /\ Resolve(d.output_path.dir, d.assets_prefix) = <<>>
            ELSE /\ StartsWith(b, d.assets_prefix)
                 /\ \A j \in (Len(d.assets_prefix) + 1)..Len(b) : b[j] = Slash
                 /\ (d.assets_prefix = <<>> \/ d.assets_prefix[Len(d.assets_prefix)] # Slash)

\* a post page three levels down rendered under a site_url and no base_url, its
\* prefix "../../.."
C7_Witness ==
    /\ site.base_url = <<>>
    /\ site.site_url = Origin
    /\ \E k \in 1..Len(rendered) :
          /\ rendered[k].template = "post.html"
          /\ rendered[k].assets_prefix = <<"..", Slash, "..", Slash, "..">>

\* the configuration puts render_page in absolute mode
AbsoluteMode(s) == is_absolute_url(s.base_url) \/ Strip(s.site_url) # <<>>

SchemeOf(url) ==
    IF StartsWith(url, <<"http:", Slash, Slash>>) \/ StartsWith(url, <<"https:", Slash, Slash>>)
    THEN 3 ELSE 0

\* C8: the canonical URL of every document is, in absolute mode, an absolute URL
\* and, in relative mode, a path from the root; it ends with the page path behind
\* one slash and holds no double slash but the one of the scheme
C8_CanonicalUrl ==
    \A k \in 1..Len(rendered) :
        LET u == rendered[k].canonical_url
            p == rendered[k].page_path
            n == SchemeOf(u)
        IN  /\ IF AbsoluteMode(site) THEN n = 3 ELSE n = 0 /\ Head(u) = Slash
            /\ u[Len(u)] = Slash
            /\ Len(u) > Len(p)
            /\ SubSeq(u, Len(u) - Len(p), Len(u)) = <<Slash>> \o p
            /\ ~HasDoubleSlash(SubSeq(u, n + 1, Len(u)))

\* the examples of C8: origin http://example.com, prefix /blog, path 2024/01/x/;
\* and no prefix in relative mode
C8_Examples ==
    \A k \in 1..Len(rendered) :
        rendered[k].page_path = <<"2024", Slash, "01", Slash, "x", Slash>> =>
            /\ (site = Site(<<Slash, "blog">>, Origin) =>
                  rendered[k].canonical_url =
                     Origin \o <<Slash, "blog", Slash, "2024", Slash, "01", Slash, "x", Slash>>)
            /\ (site = Site(<<>>, <<>>) =>
                  rendered[k].canonical_url = <<Slash, "2024", Slash, "01", Slash, "x", Slash>>)

\* the listing loop of build is over
ListingsDone == pc \in {"build_posts", "write_sitemap"}

Least(a, b) == IF a <= b THEN a ELSE b

\* C9: build emits max(1, ceil(n / 10)) listing pages for n posts, page k holding
\* the posts 10(k-1)+1 .. min(10k, n) in order: every post is on exactly one page
\* and only the last page may hold fewer than 10
C9_Pagination ==
    ListingsDone =>
        LET L == Docs("index.html")
            N == Len(L)
            n == Len(posts)
        IN  /\ N >= 1
            /\ POSTS_PER_PAGE * (N - 1) < Max2(n, 1)
            /\ n <= POSTS_PER_PAGE * N
            /\ \A k \in 1..N :
                  LET lo == POSTS_PER_PAGE * (k - 1)
                      hi == Least(POSTS_PER_PAGE * k, n)
                      on == L[k].listing[1].posts
                  IN  /\ L[k].output_path = page_output_path(k)
                      /\ L[k].listing[1].current_page = k
                      /\ Len(on) = hi - lo
                      /\ \A i \in 1..Len(on) : on[i] = posts[lo + i].source
                      /\ (k < N => Len(on) = POSTS_PER_PAGE)
            /\ \A i \in 1..n :
                  Cardinality({<<k, j>> \in (1..N) \X (1..POSTS_PER_PAGE) :
                                 /\ j <= Len(L[k].listing[1].posts)
                                 /\ L[k].listing[1].posts[j] = posts[i].source}) = 1

\* 23 posts went out on three pages of 10, 10 and 3
C9_Witness ==
    /\ ListingsDone
    /\ Len(posts) = 23
    /\ Len(Docs("index.html")) = 3
    /\ Len(Docs("index.html")[1].listing[1].posts) = 10
    /\ Len(Docs("index.html")[2].listing[1].posts) = 10
    /\ Len(Docs("index.html")[3].listing[1].posts) = 3

\* the link the claim expects from page k to page to
ExpectedLink(k, to) ==
    IF k = 1 THEN <<"page", Slash, ToString(to), Slash>>
    ELSE IF to = 1 THEN <<"..", Slash, "..", Slash>>
    ELSE <<"..", Slash, ToString(to), Slash>>

\* C10: page k of N has no prev link iff k = 1 and no next link iff k = N; a link
\* that is there is the relative path from the directory of page k to that of the
\* neighbouring page with a slash behind it, and leads there
C10_PrevNext ==
    ListingsDone =>
        LET L == Docs("index.html")
            N == Len(L)
        IN  \A k \in 1..N :
               LET g == L[k].listing[1]
                   here == L[k].output_path.dir
               IN  /\ (g.prev_url = Nothing) <=> (k = 1)
                   /\ (g.next_url = Nothing) <=> (k = N)
                   /\ k > 1 =>
                        /\ g.prev_url = Some(ExpectedLink(k, k - 1))
                        /\ Resolve(here, g.prev_url[1]) = page_output_path(k - 1).dir
                   /\ k < N =>
                        /\ g.next_url = Some(ExpectedLink(k, k + 1))
                        /\ Resolve(here, g.next_url[1]) = page_output_path(k + 1).dir

\* three pages are out: the first without prev, the last without next, the second
\* with "../../" and "../3/"
C10_Witness ==
    /\ ListingsDone
    /\ Len(Docs("index.html")) = 3
    /\ Docs("index.html")[1].listing[1].prev_url = Nothing
    /\ Docs("index.html")[1].listing[1].next_url = Some(<<"page", Slash, "2", Slash>>)
    /\ Docs("index.html")[2].listing[1].prev_url = Some(<<"..", Slash, "..", Slash>>)
    /\ Docs("index.html")[2].listing[1].next_url = Some(<<"..", Slash, "3", Slash>>)
    /\ Docs("index.html")[3].listing[1].next_url = Nothing

(***************************************************************************)
(* Properties of collect_posts and the post pages                          *)
(***************************************************************************)
\* the post pages build has rendered so far in this run
PostPages == Docs("post.html")

\* C13: two distinct posts of the collected list differ in slug, in permalink
\* and in output file, and no post page replaces the page of another post
C13_DistinctSlugs ==
    /\ \A i, j \in 1..Len(posts) :
          (i # j /\ posts[i].source # posts[j].source) =>
              /\ posts[i].slug # posts[j].slug
              /\ posts[i].url # posts[j].url
              /\ PostOutput(posts[i]) # PostOutput(posts[j])
    /\ \A i, j \in 1..Len(PostPages) :
          i # j => PostPages[i].output_path # PostPages[j].output_path

\* posts that share a date and differ in file name get pages of their own
SameDateDistinctPages ==
    pc = "done" =>
        \A i, j \in 1..Len(posts) :
            (i # j /\ posts[i].date = posts[j].date) =>
                PostOutput(posts[i]) # PostOutput(posts[j])

(***************************************************************************)
(* The files a srcset names                                                *)
(***************************************************************************)
\* the image metadata of every post, as (post, image) positions
MetaPositions ==
    UNION {{<<i, k>> : k \in 1..Len(posts[i].images_meta)} : i \in 1..Len(posts)}

\* every path of the srcset of m and its primary_src is a file of the output
Served(m) ==
    /\ \A e \in 1..Len(m.srcset) : m.srcset[e][1] \in Files(dist)
    /\ m.primary_src \in Files(dist)

\* C16: after a successful run, every path in the srcset of an asset-relative,
\* readable image of an allowed type, and its primary_src, is a file that
\* exists under the output directory
C16_SrcsetFilesExist ==
    pc = "done" =>
        \A x \in MetaPositions :
            LET m == posts[x[1]].images_meta[x[2]]
            IN  HasVariants(m) => Served(m)

\* the same for the images under static/, which copy_assets copies
StaticSrcsetFilesExist ==
    pc = "done" =>
        \A x \in MetaPositions :
            LET m == posts[x[1]].images_meta[x[2]]
            IN  (HasVariants(m) /\ m.path.path \in StaticFiles) => Served(m)

\* the resized variants of every such image are files of the output; only the
\* original may be missing
VariantFilesExist ==
    pc = "done" =>
        \A x \in MetaPositions :
            LET m == posts[x[1]].images_meta[x[2]]
            IN  HasVariants(m) =>
                  \A e \in 1..Len(m.srcset) :
                      m.srcset[e][1] # m.path.path => m.srcset[e][1] \in Files(dist)

(***************************************************************************)
(* Properties of parse_front_matter                                        *)
(***************************************************************************)
\* the first line of the text that is not empty, 0 if there is none
FirstNonEmpty(L) ==
    IF \A i \in 1..Len(L) : L[i] = <<>> THEN 0
    ELSE CHOOSE i \in 1..Len(L) : L[i] # <<>> /\ \A j \in 1..(i - 1) : L[j] = <<>>

\* line f opens a front matter block that a later line closes with the same token
Delimited(L, f) ==
    /\ f \in 1..Len(L)
    /\ StripWhite(L[f]) \in Delimiters
    /\ \E j \in (f + 1)..Len(L) : StripWhite(L[j]) = StripWhite(L[f])

\* the first line behind f that repeats its token
ClosingLine(L, f) ==
    CHOOSE j \in (f + 1)..Len(L) :
        /\ StripWhite(L[j]) = StripWhite(L[f])
        /\ \A k \in (f + 1)..(j - 1) : StripWhite(L[k]) # StripWhite(L[f])

\* lines without the blank ones at their head, the first one left flush
RECURSIVE Flush(_)
Flush(L) ==
    IF L = <<>> THEN <<>>
    ELSE IF StripWhite(Head(L)) = <<>> THEN Flush(Tail(L))
    ELSE <<LStripWhite(Head(L))>> \o Tail(L)

\* the front matter lines are key/value pairs or blank
PairsOnly(L) == \A i \in 1..Len(L) : StripWhite(L[i]) \in {<<>>, <<"k=v">>}

\* parse_front_matter has split the text at the block that line f opens, or has
\* failed for want of such a block
SplitAt(L, f) ==
    IF Delimited(L, f)
    THEN LET c == ClosingLine(L, f)
         IN  IF PairsOnly(SubSeq(L, f + 1, c - 1))
             THEN /\ ret.ok
                  /\ ret.front = JoinLines(SubSeq(L, f + 1, c - 1))
                  /\ ret.body = JoinLines(Flush(SubSeq(L, c + 1, Len(L))))
             ELSE ret.error = TOMLDecodeError
    ELSE /\ ~ret.ok
         /\ ret.error =
               IF L = <<>> THEN EmptyPost
               ELSE IF f = 0 \/ StripWhite(L[f]) \notin Delimiters THEN BadOpening
               ELSE NoClosing

\* C15 as claimed: the text is accepted iff its first non-empty line is a
\* delimiter token and the same token closes the block on a later line; the
\* lines between are the front matter, the text behind the body
C15_FirstNonEmptyLineOpens ==
    pc = "returned" => SplitAt(args.lines, FirstNonEmpty(args.lines))

\* C15: the text is accepted iff its first line, empty or not, is a delimiter
\* token and the same token closes the block on a later line; the lines between
\* are the front matter, the text behind, without the whitespace at its head,
\* the body; it fails on an empty file, on a first line that is no delimiter and
\* on a block that the same token does not close
C15_FirstLineOpens ==
    pc = "returned" => SplitAt(args.lines, IF args.lines = <<>> THEN 0 ELSE 1)

\* a text split at "+++" and " +++ ", with one pair between and an indented
\* body line behind
C15_Witness ==
    /\ pc = "returned"
    /\ args.lines = << <<"+++">>, <<"k=v">>, <<Space, "+++", Tab>>, <<Space, "x">> >>
    /\ ret.ok
    /\ ret.front = <<"k=v">>
    /\ ret.body = <<"x">>

\* a text whose block "++++" does not close: "+++" ... "++++"
OtherTokenDoesNotClose ==
    (pc = "returned" /\ Len(args.lines) >= 2 /\ args.lines[1] = <<"+++">>
       /\ \A i \in 2..Len(args.lines) : StripWhite(args.lines[i]) # <<"+++">>)
    => ret.error = NoClosing

(***************************************************************************)
(* Properties of write_feeds                                               *)
(***************************************************************************)
\* a feed document of the call: its self link is the absolute base of the site
\* with the file name behind one slash, and it lists the first posts of the
\* list, up to feed_max_posts, each under the canonical URL of its page
FeedAsClaimed(doc, name) ==
    LET base == RStrip(public_base_url(args.s)[1], Slash)
        count == Least(Len(args.posts), args.s.feed_max_posts)
    IN  /\ doc.self = base \o <<Slash, name>>
        /\ Len(doc.entries) = count
        /\ \A k \in 1..count :
              /\ doc.entries[k].post = args.posts[k].source
              /\ doc.entries[k].link = canonical_url(args.s, args.posts[k].url)
              /\ doc.entries[k].link = base \o <<Slash>> \o args.posts[k].url

LatestDate(posts_list) ==
    CHOOSE d \in {posts_list[i].date : i \in 1..Len(posts_list)} :
        \A j \in 1..Len(posts_list) : ~DateLess(d, posts_list[j].date)

\* the least number of pages of ten that hold n posts, one at least
PagesFor(n) == CHOOSE N \in 1..(n + 1) : POSTS_PER_PAGE * N >= n /\ (N = 1 \/ POSTS_PER_PAGE * (N - 1) < n)

\* the sitemap has one entry per listing page, then one per post, each at the
\* address of its page; the post entries carry the date of their post
SitemapEntries ==
    LET n == Len(posts)
        N == PagesFor(n)
    IN  /\ Len(sitemap) = N + n
        /\ \A k \in 1..N : sitemap[k].loc = canonical_url(site, ListingPath(k))
        /\ \A i \in 1..n :
              /\ sitemap[N + i].loc = canonical_url(site, posts[i].url)
              /\ sitemap[N + i].lastmod = Some(IsoFormat(posts[i].date))

\* C11 as claimed: one entry per listing page and one per post, and every entry
\* carries a last-modified date: a post entry the date of the post, a listing
\* entry the date of the newest post
C11_EveryEntryDated ==
    pc = "done" =>
        /\ SitemapEntries
        /\ \A k \in 1..Len(sitemap) : sitemap[k].lastmod # Nothing
        /\ Len(posts) > 0 =>
              \A k \in 1..PagesFor(Len(posts)) :
                 sitemap[k].lastmod = Some(IsoFormat(LatestDate(posts)))

\* C11: one entry per listing page and one per post; a post entry carries the
\* date of the post; a listing entry carries the date of the newest post when
\* there is a post, and no last-modified date when there is none
C11_EntriesDatedWhenPosts ==
    pc = "done" =>
        /\ SitemapEntries
        /\ \A k \in 1..PagesFor(Len(posts)) :
              sitemap[k].lastmod =
                 IF Len(posts) = 0 THEN Nothing ELSE Some(IsoFormat(LatestDate(posts)))

\* the sitemap of 23 posts: three listing entries dated as the newest post and 23
\* post entries, the last one dated as the oldest post
C11_Witness ==
    /\ pc = "done"
    /\ Len(posts) = 23
    /\ Len(sitemap) = 26
    /\ sitemap[3].loc = canonical_url(site, <<"page", Slash, "3", Slash>>)
    /\ sitemap[3].lastmod = Some(<<"2024", "-", "12", "-", "27">>)
    /\ sitemap[26].lastmod = Some(<<"2024", "-", "12", "-", "05">>)

(***************************************************************************)
(* Properties of infer_post_description                                    *)
(***************************************************************************)
\* the words of a text in order, one space between two words that a tag or
\* whitespace separates
RECURSIVE Plain(_)
Plain(pieces) ==
    IF pieces = <<>> THEN <<>>
    ELSE LET rest == Tail(pieces)
         IN  IF Head(pieces).kind # "word" THEN Plain(rest)
             ELSE Head(pieces).text
                    \o (IF rest # <<>> /\ rest[1].kind # "word"
                           /\ \E i \in 1..Len(rest) : rest[i].kind = "word"
                        THEN <<Space>> ELSE <<>>)
                    \o Plain(rest)

\* the first 160 characters of the plain text, less a space at the end
Preview(pieces) ==
    LET t == Plain(pieces)
    IN  IF Len(t) <= 160 THEN t
        ELSE IF t[160] = Space THEN SubSeq(t, 1, 159) ELSE SubSeq(t, 1, 160)

Lacks(pieces) == pieces = Nothing \/ Plain(pieces[1]) = <<>>

\* C12 as claimed: the description of a post without an excerpt is the text of
\* its body, tags stripped, whitespace collapsed and trimmed, cut to 160
C12_DescriptionFromBody ==
    (pc = "returned" /\ args.excerpt = Nothing) =>
        /\ ret.page_description = Preview(args.body)
        /\ Len(ret.page_description) <= 160

\* C12: the description of a post without an excerpt is its title when it has
\* one; without a title it is the text of its body, every tag giving way to a
\* space, whitespace collapsed and trimmed, cut to 160 and trimmed at the end;
\* and the description of the site when the body holds no text
C12_DescriptionTitleThenBody ==
    (pc = "returned" /\ Lacks(args.excerpt)) =>
        IF ~Lacks(args.title) THEN ret.page_description = Plain(args.title[1])
        ELSE IF Plain(args.body) # <<>>
        THEN /\ ret.page_description = Preview(args.body)
             /\ Len(ret.page_description) <= 160
        ELSE ret.page_description = Plain(args.description)

\* a post without excerpt and title whose body text is 162 long with a space at
\* the 160th place: the description is its first 159 characters
C12_Witness ==
    /\ pc = "returned"
    /\ args.excerpt = Nothing
    /\ args.title = Nothing
    /\ Len(Plain(args.body)) = 162
    /\ Plain(args.body)[160] = Space
    /\ Len(ret.page_description) = 159
    /\ ret.page_description = Word(159, "a").text

====
